---------------------------- MODULE Spec2Model ----------------------------
(***************************************************************************)
(* NutriAI (src/main.py): the JSON extraction/repair step                  *)
(* extract_and_parse_json, the Streamlit script run main() with its        *)
(* session state, and the renderer display_plan.                           *)
(*                                                                         *)
(* A text is a sequence of one-character strings.  A JSON value is a       *)
(* record of one fixed shape (t, b, n, s, a, o) so that deep equality of   *)
(* Python values is equality of records.                                   *)
(***************************************************************************)
EXTENDS Integers, Sequences, FiniteSets, TLC

(***************************************************************************)
(* Characters                                                              *)
(***************************************************************************)

\* json.decoder.WHITESPACE: [ \t\n\r]*
JsonWhitespace == {" ", "\t", "\n", "\r"}

\* \s of the re module and the default of str.strip(), within ASCII text
RegexWhitespace == {" ", "\t", "\n", "\r", "\f"}

\* characters below 0x20, which a strict JSON string may not hold
ControlChars == {"\t", "\n", "\r", "\f"}

Digits == {"0", "1", "2", "3", "4", "5", "6", "7", "8", "9"}

DigitVal(c) ==
    CASE c = "0" -> 0 [] c = "1" -> 1 [] c = "2" -> 2 [] c = "3" -> 3
      [] c = "4" -> 4 [] c = "5" -> 5 [] c = "6" -> 6 [] c = "7" -> 7
      [] c = "8" -> 8 [] c = "9" -> 9

StartsWith(s, i, lit) ==
    /\ i + Len(lit) - 1 <= Len(s)
    /\ \A k \in 1..Len(lit) : s[i + k - 1] = lit[k]

(***************************************************************************)
(* JSON values as Python holds them after json.loads                       *)
(***************************************************************************)

EmptyMap == [k \in {} |-> 0]

\* None, which is also what JSON null parses to
None == [t |-> "null", b |-> FALSE, n |-> 0, s |-> <<>>, a |-> <<>>, o |-> EmptyMap]

JBool(x) == [t |-> "bool", b |-> x, n |-> 0, s |-> <<>>, a |-> <<>>, o |-> EmptyMap]

JNum(x) == [t |-> "num", b |-> FALSE, n |-> x, s |-> <<>>, a |-> <<>>, o |-> EmptyMap]

JStr(x) == [t |-> "str", b |-> FALSE, n |-> 0, s |-> x, a |-> <<>>, o |-> EmptyMap]

JArr(x) == [t |-> "arr", b |-> FALSE, n |-> 0, s |-> <<>>, a |-> x, o |-> EmptyMap]

JObj(x) == [t |-> "obj", b |-> FALSE, n |-> 0, s |-> <<>>, a |-> <<>>, o |-> x]

\* bool(v): None, False, 0, "", [] and {} are falsy
Truthy(v) ==
    CASE v.t = "null" -> FALSE
      [] v.t = "bool" -> v.b
      [] v.t = "num" -> v.n # 0
      [] v.t = "str" -> Len(v.s) > 0
      [] v.t = "arr" -> Len(v.a) > 0
      [] v.t = "obj" -> DOMAIN v.o # {}

(***************************************************************************)
(* json.loads: the strict parser                                           *)
(*                                                                         *)
(* Numbers are integers ('.', 'e' and 'E' never follow a digit in the      *)
(* texts of this model) and the escapes \b and \uXXXX and the literals     *)
(* NaN and Infinity are outside its alphabet.                              *)
(***************************************************************************)

\* The interpreter's recursion limit, scaled down: json.loads raises
\* RecursionError, not JSONDecodeError, on containers nested deeper.
RecursionLimit == 6

Ok(v, i) == [kind |-> "ok", val |-> v, pos |-> i]

Fail(i) == [kind |-> "JSONDecodeError", val |-> None, pos |-> i]

Overflow(i) == [kind |-> "RecursionError", val |-> None, pos |-> i]

RECURSIVE skip_ws(_, _)
skip_ws(s, i) ==
    IF i <= Len(s) /\ s[i] \in JsonWhitespace THEN skip_ws(s, i + 1) ELSE i

Unescape(c) ==
    CASE c = "n" -> "\n" [] c = "t" -> "\t" [] c = "r" -> "\r" [] c = "f" -> "\f"
      [] OTHER -> c

RECURSIVE scanstring(_, _, _)
scanstring(s, i, acc) ==
    IF i > Len(s) THEN Fail(i)
    ELSE IF s[i] = "\"" THEN Ok(JStr(acc), i + 1)
    ELSE IF s[i] \in ControlChars THEN Fail(i)
    ELSE IF s[i] = "\\"
         THEN IF i + 1 <= Len(s) /\ s[i + 1] \in {"\"", "\\", "/", "n", "t", "r", "f"}
              THEN scanstring(s, i + 2, Append(acc, Unescape(s[i + 1])))
              ELSE Fail(i)
    ELSE scanstring(s, i + 1, Append(acc, s[i]))

RECURSIVE scandigits(_, _, _)
scandigits(s, i, acc) ==
    IF i <= Len(s) /\ s[i] \in Digits
    THEN scandigits(s, i + 1, acc * 10 + DigitVal(s[i]))
    ELSE [val |-> acc, pos |-> i]

\* NUMBER_RE: -?(0|[1-9]\d*), matched at i
scannumber(s, i) ==
    LET neg == s[i] = "-"
        j == IF neg THEN i + 1 ELSE i
    IN  IF j > Len(s) \/ s[j] \notin Digits THEN Fail(i)
        ELSE IF s[j] = "0" THEN Ok(JNum(0), j + 1)
        ELSE LET d == scandigits(s, j, 0)
             IN  Ok(JNum(IF neg THEN 0 - d.val ELSE d.val), d.pos)

RECURSIVE scan_once(_, _, _)
RECURSIVE object_members(_, _, _, _)
RECURSIVE array_items(_, _, _, _)

\* s[j] is the quote that opens a key; acc holds the pairs read so far
\* (a repeated key keeps its last value, as dict() does)
object_members(s, j, depth, acc) ==
    LET k == scanstring(s, j + 1, <<>>)
    IN  IF k.kind # "ok" THEN k
        ELSE
        LET c == skip_ws(s, k.pos)
        IN  IF c > Len(s) \/ s[c] # ":" THEN Fail(c)
            ELSE
            LET v == scan_once(s, skip_ws(s, c + 1), depth)
            IN  IF v.kind # "ok" THEN v
                ELSE
                LET acc2 == [x \in DOMAIN acc \cup {k.val.s} |->
                                IF x = k.val.s THEN v.val ELSE acc[x]]
                    e == skip_ws(s, v.pos)
                IN  IF e > Len(s) THEN Fail(e)
                    ELSE IF s[e] = "}" THEN Ok(JObj(acc2), e + 1)
                    ELSE IF s[e] # "," THEN Fail(e)
                    ELSE LET n == skip_ws(s, e + 1)
                         IN  IF n > Len(s) \/ s[n] # "\"" THEN Fail(n)
                             ELSE object_members(s, n, depth, acc2)

\* i is the place after the opening brace
JSONObject(s, i, depth) ==
    LET j == skip_ws(s, i)
    IN  IF j > Len(s) THEN Fail(j)
        ELSE IF s[j] = "}" THEN Ok(JObj(EmptyMap), j + 1)
        ELSE IF s[j] # "\"" THEN Fail(j)
        ELSE object_members(s, j, depth, EmptyMap)

\* i is the place of the next item; acc holds the items read so far
array_items(s, i, depth, acc) ==
    LET v == scan_once(s, i, depth)
    IN  IF v.kind # "ok" THEN v
        ELSE
        LET acc2 == Append(acc, v.val)
            e == skip_ws(s, v.pos)
        IN  IF e > Len(s) THEN Fail(e)
            ELSE IF s[e] = "]" THEN Ok(JArr(acc2), e + 1)
            ELSE IF s[e] # "," THEN Fail(e)
            ELSE array_items(s, skip_ws(s, e + 1), depth, acc2)

\* i is the place after the opening bracket
JSONArray(s, i, depth) ==
    LET j == skip_ws(s, i)
    IN  IF j > Len(s) THEN Fail(j)
        ELSE IF s[j] = "]" THEN Ok(JArr(<<>>), j + 1)
        ELSE array_items(s, j, depth, <<>>)

\* depth counts the containers already open around the value at i
scan_once(s, i, depth) ==
    IF i > Len(s) THEN Fail(i)
    ELSE IF s[i] = "\"" THEN scanstring(s, i + 1, <<>>)
    ELSE IF s[i] = "{"
         THEN IF depth >= RecursionLimit THEN Overflow(i)
              ELSE JSONObject(s, i + 1, depth + 1)
    ELSE IF s[i] = "["
         THEN IF depth >= RecursionLimit THEN Overflow(i)
              ELSE JSONArray(s, i + 1, depth + 1)
    ELSE IF StartsWith(s, i, <<"n", "u", "l", "l">>) THEN Ok(None, i + 4)
    ELSE IF StartsWith(s, i, <<"t", "r", "u", "e">>) THEN Ok(JBool(TRUE), i + 4)
    ELSE IF StartsWith(s, i, <<"f", "a", "l", "s", "e">>) THEN Ok(JBool(FALSE), i + 5)
    ELSE IF s[i] = "-" \/ s[i] \in Digits THEN scannumber(s, i)
    ELSE Fail(i)

\* JSONDecoder.decode: one value between optional whitespace, nothing after it
json_loads(s) ==
    LET r == scan_once(s, skip_ws(s, 1), 0)
    IN  IF r.kind # "ok" THEN r
        ELSE LET e == skip_ws(s, r.pos)
             IN  IF e <= Len(s) THEN Fail(e) ELSE r

(***************************************************************************)
(* The three regular-expression steps of extract_and_parse_json            *)
(***************************************************************************)

\* the place of the first c in s, or 0
FirstIndex(s, c) ==
    IF \E i \in 1..Len(s) : s[i] = c
    THEN CHOOSE i \in 1..Len(s) : s[i] = c /\ \A j \in 1..(i - 1) : s[j] # c
    ELSE 0

\* the place of the last c in s, or 0
LastIndex(s, c) ==
    IF \E i \in 1..Len(s) : s[i] = c
    THEN CHOOSE i \in 1..Len(s) : s[i] = c /\ \A j \in (i + 1)..Len(s) : s[j] # c
    ELSE 0

\* a variant of line 135 with a lazy star: up to the first '}' after the '{'
search_lazy_pattern(raw_output) ==
    LET first == FirstIndex(raw_output, "{")
        closers == {j \in 1..Len(raw_output) : j > first /\ raw_output[j] = "}"}
    IN  IF first # 0 /\ closers # {}
        THEN [matched |-> TRUE,
              group |-> SubSeq(raw_output, first,
                               CHOOSE j \in closers : \A k \in closers : j <= k)]
        ELSE [matched |-> FALSE, group |-> <<>>]

\* re.search(r'({[\s\S]*})', raw_output): the leftmost '{' that has a '}'
\* after it, up to the last '}' (the star is greedy)
search_json_pattern(raw_output) ==
    LET first == FirstIndex(raw_output, "{")
        last == LastIndex(raw_output, "}")
    IN  IF first # 0 /\ last > first
        THEN [matched |-> TRUE, group |-> SubSeq(raw_output, first, last)]
        ELSE [matched |-> FALSE, group |-> <<>>]

RECURSIVE skip_space(_, _)
skip_space(s, i) ==
    IF i <= Len(s) /\ s[i] \in RegexWhitespace THEN skip_space(s, i + 1) ELSE i

\* The grave accent U+0060, which a string of this language cannot hold
Grave == "GRAVE"

Fence == <<Grave, Grave, Grave>>

\* The pattern of line 144 tried at place i: a fence, an optional "json" and the
\* whitespace after it, or else whitespace and the fence after it (the first
\* alternative is tried before the second).  What re.sub leaves of the text
\* there, and the place it goes on from.
fence_at(s, i) ==
    IF StartsWith(s, i, Fence)
    THEN LET j == IF StartsWith(s, i + 3, <<"j", "s", "o", "n">>)
                  THEN i + 7 ELSE i + 3
         IN  [kept |-> <<>>, next |-> skip_space(s, j)]
    ELSE IF s[i] \in RegexWhitespace /\ StartsWith(s, skip_space(s, i), Fence)
    THEN [kept |-> <<>>, next |-> skip_space(s, i) + 3]
    ELSE [kept |-> <<s[i]>>, next |-> i + 1]

\* The pattern of line 147 tried at place i: a comma, whitespace and a closer,
\* replaced by the whitespace and the closer
comma_at(s, i) ==
    LET j == skip_space(s, i + 1)
    IN  IF s[i] = "," /\ j <= Len(s) /\ s[j] \in {"}", "]"}
        THEN [kept |-> SubSeq(s, i + 1, j), next |-> j + 1]
        ELSE [kept |-> <<s[i]>>, next |-> i + 1]

\* re.sub scans left to right, each match starting where the last one ended.
\* The scan is evaluated a stretch of the text at a time, so that it does not
\* nest once per character.
RECURSIVE fence_stretch(_, _, _)
fence_stretch(s, i, end) ==
    IF i > Len(s) \/ i >= end THEN [kept |-> <<>>, next |-> i]
    ELSE LET m == fence_at(s, i)
             r == fence_stretch(s, m.next, end)
         IN  [kept |-> m.kept \o r.kept, next |-> r.next]

RECURSIVE sub_fences(_, _)
sub_fences(s, i) ==
    IF i > Len(s) THEN <<>>
    ELSE LET r == fence_stretch(s, i, i + 32)
         IN  r.kept \o sub_fences(s, r.next)

RECURSIVE comma_stretch(_, _, _)
comma_stretch(s, i, end) ==
    IF i > Len(s) \/ i >= end THEN [kept |-> <<>>, next |-> i]
    ELSE LET m == comma_at(s, i)
             r == comma_stretch(s, m.next, end)
         IN  [kept |-> m.kept \o r.kept, next |-> r.next]

RECURSIVE sub_trailing_commas(_, _)
sub_trailing_commas(s, i) ==
    IF i > Len(s) THEN <<>>
    ELSE LET r == comma_stretch(s, i, i + 32)
         IN  r.kept \o sub_trailing_commas(s, r.next)

RECURSIVE rskip_space(_, _)
rskip_space(s, i) ==
    IF i >= 1 /\ s[i] \in RegexWhitespace THEN rskip_space(s, i - 1) ELSE i

\* str.strip()
strip(s) == SubSeq(s, skip_space(s, 1), rskip_space(s, Len(s)))

\* lines 135-141: the candidate text
candidate(raw_output) ==
    LET match == search_json_pattern(raw_output)
    IN  IF match.matched THEN match.group ELSE raw_output

\* lines 144-147: the text handed to json.loads
repaired(raw_output) ==
    sub_trailing_commas(strip(sub_fences(candidate(raw_output), 1)), 1)

NoError == [shown |-> FALSE, label |-> "", kind |-> "", pos |-> 0]

NoTextArea == [shown |-> FALSE, text |-> <<>>]

\* What one call does: the value returned, the handler it left through, and what
\* it put on the page (st.error with str(e), st.text_area with raw_output)
\* a variant of lines 152-155 that shows the repaired candidate in the text area
extract_showing_candidate(raw) ==
    LET r == json_loads(repaired(raw))
    IN  IF r.kind = "ok"
        THEN [exit |-> "return", result |-> r.val, error |-> NoError,
              text_area |-> NoTextArea]
        ELSE [exit |-> IF r.kind = "JSONDecodeError" THEN "except JSONDecodeError"
                       ELSE "except Exception",
              result |-> None,
              error |-> [shown |-> TRUE,
                         label |-> IF r.kind = "JSONDecodeError"
                                   THEN "JSON Parsing Error"
                                   ELSE "Error processing output",
                         kind |-> r.kind, pos |-> r.pos],
              text_area |-> IF r.kind = "JSONDecodeError"
                            THEN [shown |-> TRUE, text |-> repaired(raw)]
                            ELSE NoTextArea]

extract_and_parse_json(raw_output) ==
    LET r == json_loads(repaired(raw_output))
    IN  IF r.kind = "ok"
        THEN [exit |-> "return", result |-> r.val,
              error |-> NoError, text_area |-> NoTextArea]
        ELSE IF r.kind = "JSONDecodeError"
        THEN [exit |-> "except JSONDecodeError", result |-> None,
              error |-> [shown |-> TRUE, label |-> "JSON Parsing Error",
                         kind |-> r.kind, pos |-> r.pos],
              text_area |-> [shown |-> TRUE, text |-> raw_output]]
        ELSE [exit |-> "except Exception", result |-> None,
              error |-> [shown |-> TRUE, label |-> "Error processing output",
                         kind |-> r.kind, pos |-> r.pos],
              text_area |-> NoTextArea]

(***************************************************************************)
(* The texts the extractor is run on                                       *)
(***************************************************************************)

\* json.dumps with its default separators: how a model response spells a value
RECURSIVE IntText(_)
IntText(n) ==
    LET d == <<"0", "1", "2", "3", "4", "5", "6", "7", "8", "9">>
    IN  IF n < 0 THEN <<"-">> \o IntText(0 - n)
        ELSE IF n < 10 THEN <<d[n + 1]>>
        ELSE IntText(n \div 10) \o <<d[(n % 10) + 1]>>

RECURSIVE Escaped(_)
Escaped(t) ==
    IF t = <<>> THEN <<>>
    ELSE (IF t[1] \in {"\"", "\\"} THEN <<"\\", t[1]>> ELSE <<t[1]>>)
         \o Escaped(Tail(t))

Quoted(t) == <<"\"">> \o Escaped(t) \o <<"\"">>

RECURSIVE Serialize(_)
RECURSIVE SerializeItems(_, _)
RECURSIVE SerializeMembers(_, _)

SerializeItems(a, i) ==
    IF i > Len(a) THEN <<>>
    ELSE (IF i > 1 THEN <<",", " ">> ELSE <<>>) \o Serialize(a[i])
         \o SerializeItems(a, i + 1)

SerializeMembers(o, keys) ==
    IF keys = {} THEN <<>>
    ELSE LET k == CHOOSE x \in keys : TRUE
         IN  (IF keys # DOMAIN o THEN <<",", " ">> ELSE <<>>)
             \o Quoted(k) \o <<":", " ">> \o Serialize(o[k])
             \o SerializeMembers(o, keys \ {k})

Serialize(v) ==
    CASE v.t = "null" -> <<"n", "u", "l", "l">>
      [] v.t = "bool" -> IF v.b THEN <<"t", "r", "u", "e">>
                         ELSE <<"f", "a", "l", "s", "e">>
      [] v.t = "num" -> IntText(v.n)
      [] v.t = "str" -> Quoted(v.s)
      [] v.t = "arr" -> <<"[">> \o SerializeItems(v.a, 1) \o <<"]">>
      [] v.t = "obj" -> <<"{">> \o SerializeMembers(v.o, DOMAIN v.o) \o <<"}">>

\* Bounds of the sampled inputs
MaxLen == 3

MaxNesting == 2

ShortAlphabet == {"{", "}", "[", "]", ",", ":", "\"", "1", " "}

\* every text over ShortAlphabet of at most MaxLen characters
ShortTexts == UNION {[1..n -> ShortAlphabet] : n \in 0..MaxLen}

\* what a string value may hold: plain text, a comma before a closer, a fence,
\* lone braces
StringSamples ==
    {<<"a">>, <<",", "}">>, <<",", " ", "]">>, Fence, <<"{">>, <<"}">>}

RECURSIVE ValueSamples(_)
ValueSamples(d) ==
    IF d = 0 THEN {JNum(1), None} \cup {JStr(t) : t \in StringSamples}
    ELSE LET inner == ValueSamples(d - 1)
         IN  inner \cup {JArr(<<>>), JObj(EmptyMap)}
                   \cup {JArr(<<x>>) : x \in inner}
                   \cup {JArr(<<JNum(1), x>>) : x \in inner}
                   \cup {JObj(<<"a">> :> x) : x \in inner}
                   \cup {JObj(<<"a">> :> JNum(1) @@ <<"b">> :> x) : x \in inner}

Values == ValueSamples(MaxNesting)

Objects == {v \in Values : v.t = "obj"}

\* containers nested one deeper than json.loads follows, closed or left open
RECURSIVE Repeat(_, _)
Repeat(c, n) == IF n = 0 THEN <<>> ELSE <<c>> \o Repeat(c, n - 1)

DeepTexts ==
    {Repeat("[", RecursionLimit + 1),
     Repeat("[", RecursionLimit + 1) \o Repeat("]", RecursionLimit + 1),
     Repeat("[", RecursionLimit) \o Repeat("]", RecursionLimit),
     <<"n", "o", "t", " ", "j", "s", "o", "n", " ", "a", "t", " ", "a", "l", "l">>,
     <<"S", "o", "r", "r", "y", " ", "{", "n", "o", " ", "p", "l", "a", "n", "}", ".">>}

ProseSamples ==
    {<<>>,
     <<"H", "e", "r", "e", ":", "\n">>,
     <<"\n", "E", "n", "j", "o", "y", "!">>,
     <<"s", "e", "e", " ", "{", "x", "}", " ">>}

Closers(text) == {i \in 1..Len(text) : text[i] \in {"}", "]"}}

\* A sample names how a raw text is put together:
\*   text    J as it is (any text)
\*   plain   J, the spelling of a JSON value, as it is
\*   fenced  P, a fence (tagged json or not), J, the closing fence, S
\*   comma   J with one comma put in right before the closer at place `at`
Sample(shape, J, P, S, tag, sep, at) ==
    [shape |-> shape, J |-> J, P |-> P, S |-> S, tag |-> tag, sep |-> sep, at |-> at]

Samples ==
    {Sample("text", t, <<>>, <<>>, FALSE, <<>>, 0) : t \in ShortTexts \cup DeepTexts}
    \cup {Sample("plain", Serialize(v), <<>>, <<>>, FALSE, <<>>, 0) : v \in Values}
    \cup {Sample("fenced", Serialize(v), x[1], x[2], x[3], x[4], 0) :
            v \in Objects,
            x \in ProseSamples \X ProseSamples \X BOOLEAN \X {<<>>, <<"\n">>}}
    \cup UNION {{Sample("comma", Serialize(v), <<>>, <<>>, FALSE, <<>>, i) :
                    i \in Closers(Serialize(v))} : v \in Objects}

RawText(c) ==
    CASE c.shape \in {"text", "plain"} -> c.J
      [] c.shape = "fenced" ->
            c.P \o Fence \o (IF c.tag THEN <<"j", "s", "o", "n">> ELSE <<>>)
                \o c.sep \o c.J \o c.sep \o Fence \o c.S
      [] c.shape = "comma" ->
            SubSeq(c.J, 1, c.at - 1) \o <<",">> \o SubSeq(c.J, c.at, Len(c.J))

NoSample == Sample("none", <<>>, <<>>, <<>>, FALSE, <<>>, 0)

NoOutcome ==
    [exit |-> "not run", result |-> None, error |-> NoError, text_area |-> NoTextArea]

(***************************************************************************)
(* The NutritionPlan document of the prompt's example (lines 60-124), as   *)
(* a model response spells it, and the documents that lack one of its keys *)
(***************************************************************************)

k_metadata == <<"m", "e", "t", "a", "d", "a", "t", "a">>

k_generated_at == <<"g", "e", "n", "e", "r", "a", "t", "e", "d", "_", "a", "t">>

k_plan_duration == <<"p", "l", "a", "n", "_", "d", "u", "r", "a", "t", "i", "o", "n">>

k_user_profile == <<"u", "s", "e", "r", "_", "p", "r", "o", "f", "i", "l", "e">>

k_bmi == <<"b", "m", "i">>

k_bmr == <<"b", "m", "r">>

k_daily_calories == <<"d", "a", "i", "l", "y", "_", "c", "a", "l", "o", "r", "i", "e", "s">>

k_macros == <<"m", "a", "c", "r", "o", "s">>

k_protein == <<"p", "r", "o", "t", "e", "i", "n">>

k_carbs == <<"c", "a", "r", "b", "s">>

k_fats == <<"f", "a", "t", "s">>

k_percent == <<"p", "e", "r", "c", "e", "n", "t">>

k_grams == <<"g", "r", "a", "m", "s">>

k_micro_nutrients == <<"m", "i", "c", "r", "o", "_", "n", "u", "t", "r", "i", "e", "n", "t", "s">>

k_considerations == <<"c", "o", "n", "s", "i", "d", "e", "r", "a", "t", "i", "o", "n", "s">>

k_daily_plans == <<"d", "a", "i", "l", "y", "_", "p", "l", "a", "n", "s">>

k_day_1 == <<"d", "a", "y", "_", "1">>

k_day_2 == <<"d", "a", "y", "_", "2">>

k_meals == <<"m", "e", "a", "l", "s">>

k_breakfast == <<"b", "r", "e", "a", "k", "f", "a", "s", "t">>

k_name == <<"n", "a", "m", "e">>

k_desc == <<"d", "e", "s", "c">>

k_ingredients == <<"i", "n", "g", "r", "e", "d", "i", "e", "n", "t", "s">>

k_nutrition == <<"n", "u", "t", "r", "i", "t", "i", "o", "n">>

k_calories == <<"c", "a", "l", "o", "r", "i", "e", "s">>

k_fiber == <<"f", "i", "b", "e", "r">>

k_prep == <<"p", "r", "e", "p">>

k_time == <<"t", "i", "m", "e">>

k_snacks == <<"s", "n", "a", "c", "k", "s">>

k_morning_snack == <<"m", "o", "r", "n", "i", "n", "g", "_", "s", "n", "a", "c", "k">>

k_afternoon_snack == <<"a", "f", "t", "e", "r", "n", "o", "o", "n", "_", "s", "n", "a", "c", "k">>

k_evening_snack == <<"e", "v", "e", "n", "i", "n", "g", "_", "s", "n", "a", "c", "k">>

k_hydration == <<"h", "y", "d", "r", "a", "t", "i", "o", "n">>

k_water == <<"w", "a", "t", "e", "r">>

k_other == <<"o", "t", "h", "e", "r">>

k_shopping_list == <<"s", "h", "o", "p", "p", "i", "n", "g", "_", "l", "i", "s", "t">>

k_proteins == <<"p", "r", "o", "t", "e", "i", "n", "s">>

k_recommendations == <<"r", "e", "c", "o", "m", "m", "e", "n", "d", "a", "t", "i", "o", "n", "s">>

k_general == <<"g", "e", "n", "e", "r", "a", "l">>

k_supplements == <<"s", "u", "p", "p", "l", "e", "m", "e", "n", "t", "s">>

k_tracking == <<"t", "r", "a", "c", "k", "i", "n", "g">>

t_iron == <<"i", "r", "o", "n">>

t_oats == <<"O", "a", "t", "s">>

t_porridge == <<"W", "a", "r", "m", " ", "p", "o", "r", "r", "i", "d", "g", "e">>

t_milk == <<"m", "i", "l", "k">>

t_prep == <<"S", "o", "a", "k", ".", " ", "B", "o", "i", "l", ".", " ", "S", "e", "r", "v", "e">>

t_0800 == <<"0", "8", ":", "0", "0">>

t_apple == <<"A", "p", "p", "l", "e">>

t_2L == <<"2", "L", " ", "m", "i", "n", "i", "m", "u", "m">>

t_tea == <<"h", "e", "r", "b", "a", "l", " ", "t", "e", "a">>

t_tofu == <<"t", "o", "f", "u">>

t_advice == <<"E", "a", "t", " ", "s", "l", "o", "w", "l", "y">>

t_vitamin_d == <<"v", "i", "t", "a", "m", "i", "n", " ", "D">>

t_log == <<"K", "e", "e", "p", " ", "a", " ", "l", "o", "g">>

t_stamp == <<"2", "0", "2", "4", "-", "0", "1", "-", "0", "1", "T", "0", "0", ":", "0", "0", ":", "0", "0">>

t_here == <<"H", "e", "r", "e", " ", "i", "s", " ", "y", "o", "u", "r", " ", "p", "l", "a", "n", ":", "\n">>

t_enjoy == <<"\n", "E", "n", "j", "o", "y", "!">>

t_not_json == <<"n", "o", "t", " ", "j", "s", "o", "n", " ", "a", "t", " ", "a", "l", "l">>

Macro(percent, grams) ==
    JObj(k_percent :> JNum(percent) @@ k_grams :> JNum(grams))

Breakfast ==
    JObj(k_name :> JStr(t_oats)
         @@ k_desc :> JStr(t_porridge)
         @@ k_ingredients :> JArr(<<JStr(t_oats), JStr(t_milk)>>)
         @@ k_nutrition :> JObj(k_calories :> JNum(350) @@ k_protein :> JNum(20)
                                @@ k_carbs :> JNum(45) @@ k_fats :> JNum(8)
                                @@ k_fiber :> JNum(5))
         @@ k_prep :> JStr(t_prep)
         @@ k_time :> JStr(t_0800))

MorningSnack ==
    JObj(k_name :> JStr(t_apple)
         @@ k_nutrition :> JObj(k_calories :> JNum(150) @@ k_protein :> JNum(5)
                                @@ k_carbs :> JNum(20) @@ k_fats :> JNum(5)))

Day1 ==
    JObj(k_meals :> JObj(k_breakfast :> Breakfast)
         @@ k_snacks :> JObj(k_morning_snack :> MorningSnack)
         @@ k_hydration :> JObj(k_water :> JStr(t_2L)
                                @@ k_other :> JArr(<<JStr(t_tea)>>)))

\* a day with no section at all: every section of a day is optional to display_plan
Day2 == JObj(EmptyMap)

FullPlan ==
    JObj(k_metadata :> JObj(k_generated_at :> JStr(t_stamp)
                            @@ k_plan_duration :> JNum(7))
         @@ k_user_profile :>
                JObj(k_bmi :> JNum(22) @@ k_bmr :> JNum(1650)
                     @@ k_daily_calories :> JNum(2200)
                     @@ k_macros :> JObj(k_protein :> Macro(30, 165)
                                         @@ k_carbs :> Macro(40, 220)
                                         @@ k_fats :> Macro(30, 73))
                     @@ k_micro_nutrients :> JArr(<<JStr(t_iron)>>)
                     @@ k_considerations :> JArr(<<>>))
         @@ k_daily_plans :> JObj(k_day_1 :> Day1 @@ k_day_2 :> Day2)
         @@ k_shopping_list :> JObj(k_proteins :> JArr(<<JStr(t_tofu)>>))
         @@ k_recommendations :>
                JObj(k_general :> JStr(t_advice)
                     @@ k_supplements :> JArr(<<JStr(t_vitamin_d)>>)
                     @@ k_tracking :> JStr(t_log)))

\* the paths of every key of a document, each a sequence of keys
RECURSIVE KeyPaths(_)
KeyPaths(v) ==
    IF v.t # "obj" THEN {}
    ELSE UNION {{<<k>>} \cup {<<k>> \o q : q \in KeyPaths(v.o[k])} : k \in DOMAIN v.o}

\* the document without the key at path q
RECURSIVE Without(_, _)
Without(v, q) ==
    IF Len(q) = 1
    THEN JObj([k \in DOMAIN v.o \ {q[1]} |-> v.o[k]])
    ELSE JObj([k \in DOMAIN v.o |->
                  IF k = q[1] THEN Without(v.o[k], Tail(q)) ELSE v.o[k]])

GappedPlans == {Without(FullPlan, q) : q \in KeyPaths(FullPlan)}

\* What the PlanGenerator may answer: the full document bare, fenced between
\* prose and with trailing commas; every document with one key gone; values
\* that are no plan; text that is no JSON
FencedPlan ==
    t_here \o Fence \o <<"j", "s", "o", "n", "\n">> \o Serialize(FullPlan)
           \o <<"\n">> \o Fence \o t_enjoy

Responses ==
    {Serialize(d) : d \in {FullPlan} \cup GappedPlans}
    \cup {FencedPlan, t_not_json, <<>>,
          <<"[", "1", "]">>, <<"{", "}">>, <<"n", "u", "l", "l">>, <<"1">>,
          <<"{", "\"", "a", "\"", ":", "1", ",", "}">>}

(***************************************************************************)
(* display_plan: the subscripts, attribute uses and Streamlit calls that   *)
(* can raise, in the order the code makes them.  A step is the source line *)
(* and the exception raised there ("" when it passes); display_plan stops  *)
(* at its first step that raises.                                          *)
(***************************************************************************)

Fine(v) == [exc |-> "", val |-> v]

Raise(e) == [exc |-> e, val |-> None]

Step(line, e) == [line |-> line, exc |-> e]

\* v[key] for a str key: a dict without the key raises KeyError; a list, a str
\* or a scalar raises TypeError
getitem(v, key) ==
    IF v.t = "obj"
    THEN IF key \in DOMAIN v.o THEN Fine(v.o[key]) ELSE Raise("KeyError")
    ELSE Raise("TypeError")

then_getitem(r, key) == IF r.exc # "" THEN r ELSE getitem(r.val, key)

RECURSIVE getpath(_, _)
getpath(v, keys) ==
    IF keys = <<>> THEN Fine(v)
    ELSE then_getitem(getpath(v, SubSeq(keys, 1, Len(keys) - 1)), keys[Len(keys)])

\* v.get, v.items, v.keys: only a dict has them
dict_method(r) ==
    IF r.exc # "" THEN r.exc ELSE IF r.val.t = "obj" THEN "" ELSE "AttributeError"

\* v.split: only a str has it
str_method(r) ==
    IF r.exc # "" THEN r.exc ELSE IF r.val.t = "str" THEN "" ELSE "AttributeError"

IsSubstring(key, text) ==
    \E i \in 1..(Len(text) - Len(key) + 1) : StartsWith(text, i, key)

\* key in v: membership in a dict's keys, a list's items or a str; a scalar
\* raises TypeError
contains(key, v) ==
    CASE v.t = "obj" -> [exc |-> "", yes |-> key \in DOMAIN v.o]
      [] v.t = "arr" -> [exc |-> "", yes |-> \E i \in 1..Len(v.a) : v.a[i] = JStr(key)]
      [] v.t = "str" -> [exc |-> "", yes |-> IsSubstring(key, v.s)]
      [] OTHER -> [exc |-> "TypeError", yes |-> FALSE]

\* for item in v
iterable(r) ==
    IF r.exc # "" THEN r.exc
    ELSE IF r.val.t \in {"arr", "str", "obj"} THEN "" ELSE "TypeError"

\* st.metric(label, value): value is an int, a float, a str or None
metric_value(r) ==
    IF r.exc # "" THEN r.exc
    ELSE IF r.val.t \in {"arr", "obj"} THEN "TypeError" ELSE ""

\* what "for item in v" goes through: a list's items, a str's characters
ItemsOf(v) ==
    IF v.t = "arr" THEN v.a
    ELSE IF v.t = "str" THEN [i \in 1..Len(v.s) |-> JStr(<<v.s[i]>>)]
    ELSE <<>>

\* st.checkbox(item, key=...) over the items of one iterable: two equal items
\* ask for the same widget key twice
checkbox_keys(r) ==
    IF r.exc # "" THEN ""
    ELSE IF \E i, j \in 1..Len(ItemsOf(r.val)) :
                i < j /\ ItemsOf(r.val)[i] = ItemsOf(r.val)[j]
         THEN "DuplicateWidgetID" ELSE ""

NoFailure == Step(0, "")

FirstFailure(steps) ==
    IF \E i \in 1..Len(steps) : steps[i].exc # ""
    THEN steps[CHOOSE i \in 1..Len(steps) :
                  steps[i].exc # "" /\ \A j \in 1..(i - 1) : steps[j].exc = ""]
    ELSE NoFailure

\* a loop over the entries of a dict, each giving the steps of its pass: the
\* loop stops in the first pass that raises (of several, the one failing at
\* the earliest line stands for it)
Loop(passes) ==
    LET failures == {FirstFailure(q) : q \in passes} \ {NoFailure}
    IN  IF failures = {} THEN <<>>
        ELSE <<CHOOSE f \in failures : \A g \in failures : f.line <= g.line>>

ValuesOf(v) == IF v.t = "obj" THEN {v.o[k] : k \in DOMAIN v.o} ELSE {}

\* lines 294-298: the timeline's pass over one meal
timeline_meal(meal) ==
    LET time == IF meal.t = "obj" /\ k_time \in DOMAIN meal.o
                THEN meal.o[k_time] ELSE JStr(<<>>)
    IN  <<Step(296, dict_method(Fine(meal)))>>
        \o (IF meal.t = "obj" /\ Truthy(time)
            THEN <<Step(298, getitem(meal, k_name).exc)>> ELSE <<>>)

\* line 314: meal_times.sort compares the times; two times compare when both
\* are str or both are numbers
time_kind(v) == IF v.t \in {"num", "bool"} THEN "num" ELSE v.t

sort_times(meals, snacks) ==
    LET timed == {m \in ValuesOf(meals) :
                     m.t = "obj" /\ k_time \in DOMAIN m.o /\ Truthy(m.o[k_time])}
        kinds == {time_kind(m.o[k_time]) : m \in timed}
                 \cup (IF Truthy(snacks) THEN {"str"} ELSE {})
    IN  IF Cardinality(kinds) > 1 \/ (kinds = {"obj"} /\ Cardinality(timed) > 1)
        THEN "TypeError" ELSE ""

\* lines 327-377: the card of one meal
meal_card(meal) ==
    LET nutrition == getitem(meal, k_nutrition)
    IN  <<Step(329, getitem(meal, k_name).exc),
          Step(332, getitem(meal, k_desc).exc),
          Step(340, iterable(getitem(meal, k_ingredients))),
          Step(341, checkbox_keys(getitem(meal, k_ingredients))),
          Step(345, str_method(getitem(meal, k_prep))),
          Step(359, then_getitem(nutrition, k_calories).exc),
          Step(364, then_getitem(nutrition, k_protein).exc),
          Step(368, then_getitem(nutrition, k_carbs).exc),
          Step(372, then_getitem(nutrition, k_fats).exc)>>

\* lines 387-393: the card of one snack
snack_card(snack) ==
    LET nutrition == getitem(snack, k_nutrition)
    IN  <<Step(390, getitem(snack, k_name).exc),
          Step(391, then_getitem(nutrition, k_calories).exc),
          Step(393, then_getitem(nutrition, k_protein).exc),
          Step(393, then_getitem(nutrition, k_carbs).exc),
          Step(393, then_getitem(nutrition, k_fats).exc)>>

\* an optional list: "key in d and d[key]" at line, then a loop over d[key]
\* at line loop
optional_list(line, loop, d, key) ==
    LET has == contains(key, d)
    IN  IF has.exc # "" THEN <<Step(line, has.exc)>>
        ELSE IF has.yes /\ getitem(d, key).exc = "" /\ Truthy(getitem(d, key).val)
        THEN <<Step(loop, iterable(getitem(d, key)))>>
        ELSE IF has.yes THEN <<Step(line, getitem(d, key).exc)>>
        ELSE <<>>

\* protein_pct + carbs_pct at line 437: two numbers, two str or two lists add
adds(x, y) ==
    \/ time_kind(x) = "num" /\ time_kind(y) = "num"
    \/ x.t = y.t /\ x.t \in {"str", "arr"}

\* lines 294-414: the selected day
day_steps(day_plan) ==
    LET has_meals == contains(k_meals, day_plan)
        meals == getitem(day_plan, k_meals)
        has_snacks == contains(k_snacks, day_plan)
        snacks == getitem(day_plan, k_snacks)
        show_snacks == has_snacks.yes /\ snacks.exc = "" /\ Truthy(snacks.val)
        has_hydration == contains(k_hydration, day_plan)
        hydration == getitem(day_plan, k_hydration)
    IN  <<Step(294, has_meals.exc)>>
        \o (IF has_meals.yes
            THEN <<Step(295, dict_method(meals))>>
                 \o Loop({timeline_meal(m) : m \in ValuesOf(meals.val)})
            ELSE <<>>)
        \o <<Step(300, IF has_snacks.yes THEN snacks.exc ELSE "")>>
        \o (IF show_snacks
            THEN <<Step(301, dict_method(snacks))>>
                 \o Loop({<<Step(311, getitem(x, k_name).exc)>> :
                            x \in ValuesOf(snacks.val)})
            ELSE <<>>)
        \o <<Step(314, sort_times(meals.val, snacks.val))>>
        \o (IF has_meals.yes
            THEN Loop({meal_card(m) : m \in ValuesOf(meals.val)}) ELSE <<>>)
        \o (IF show_snacks
            THEN Loop({snack_card(x) : x \in ValuesOf(snacks.val)}) ELSE <<>>)
        \o (IF has_hydration.yes
            THEN <<Step(402, then_getitem(hydration, k_water).exc)>>
                 \o optional_list(411, 413, hydration.val, k_other)
            ELSE <<>>)

\* lines 428-471: the nutrition profile tab
profile_steps(plan) ==
    LET macros == getpath(plan, <<k_user_profile, k_macros>>)
        pct(m) == then_getitem(then_getitem(macros, m), k_percent)
        grams(m) == then_getitem(then_getitem(macros, m), k_grams)
        profile == getitem(plan, k_user_profile).val
    IN  <<Step(428, pct(k_protein).exc),
          Step(429, pct(k_carbs).exc),
          Step(430, pct(k_fats).exc),
          Step(437, IF adds(pct(k_protein).val, pct(k_carbs).val)
                    THEN "" ELSE "TypeError"),
          Step(453, grams(k_protein).exc),
          Step(454, grams(k_carbs).exc),
          Step(455, grams(k_fats).exc)>>
        \o optional_list(460, 461, profile, k_micro_nutrients)
        \o optional_list(467, 468, profile, k_considerations)

\* lines 478-482: the shopping list tab
shopping_steps(plan) ==
    LET list == getitem(plan, k_shopping_list)
    IN  <<Step(478, dict_method(list))>>
        \o Loop({IF Truthy(items)
                 THEN <<Step(481, iterable(Fine(items))),
                        Step(482, checkbox_keys(Fine(items)))>>
                 ELSE <<>> : items \in ValuesOf(list.val)})

\* lines 489-503: the tips tab
tips_steps(plan) ==
    LET rec == getitem(plan, k_recommendations)
    IN  IF ~contains(k_recommendations, plan).yes THEN <<>>
        ELSE <<Step(492, contains(k_general, rec.val).exc)>>
             \o optional_list(496, 498, rec.val, k_supplements)

\* the keys of plan['daily_plans'], for the day buttons of lines 270-285
days_of(plan) ==
    LET daily == getitem(plan, k_daily_plans)
    IN  IF daily.exc = "" /\ daily.val.t = "obj" THEN DOMAIN daily.val.o ELSE {}

\* lines 274-285: the session's selected_day (main has set the key, so the
\* default days[0] of line 274 is never what get returns), unless the run
\* was caused by the click of a day button
selected_in_run(plan, session_selected_day, clicked_day) ==
    IF clicked_day \in days_of(plan) THEN JStr(clicked_day) ELSE session_selected_day

\* lines 256-287: the header and the day selector
header_steps(plan, selected_day) ==
    LET profile == getitem(plan, k_user_profile)
        daily == getitem(plan, k_daily_plans)
    IN  <<Step(256, metric_value(then_getitem(profile, k_daily_calories))),
          Step(258, getpath(plan, <<k_metadata, k_plan_duration>>).exc),
          Step(260, dict_method(profile)),
          Step(270, dict_method(daily)),
          Step(273, IF days_of(plan) = {} THEN "StreamlitAPIException" ELSE ""),
          Step(287, IF selected_day.t = "str" /\ selected_day.s \in days_of(plan)
                    THEN "" ELSE "KeyError")>>

\* What one call of display_plan does: whether it returned or raised, where,
\* and which buttons it had put on the page by then
display_plan(plan, session_selected_day, clicked_day) ==
    LET selected_day == selected_in_run(plan, session_selected_day, clicked_day)
        head == header_steps(plan, selected_day)
        day_plan == IF FirstFailure(head) = NoFailure
                    THEN getitem(plan, k_daily_plans).val.o[selected_day.s]
                    ELSE None
        steps == head \o day_steps(day_plan) \o profile_steps(plan)
                      \o shopping_steps(plan) \o tips_steps(plan)
        failure == FirstFailure(steps)
        reached(line) == failure = NoFailure \/ failure.line > line
    IN  [entered |-> TRUE,
         status |-> IF failure = NoFailure THEN "complete" ELSE "raised",
         exc |-> failure.exc,
         line |-> failure.line,
         day_buttons |-> IF reached(273) THEN days_of(plan) ELSE {},
         print_button |-> reached(482),
         action_buttons |-> failure = NoFailure]

NotDisplayed ==
    [entered |-> FALSE, status |-> "not entered", exc |-> "", line |-> 0,
     day_buttons |-> {}, print_button |-> FALSE, action_buttons |-> FALSE]

(***************************************************************************)
(* State                                                                   *)
(***************************************************************************)

VARIABLES
    sample,          \* how raw_output was put together (extractor runs only)
    raw_output,      \* the argument of the last extract_and_parse_json call
    outcome,         \* what that call did
    pc,              \* extractor runs: "ready" before the call, "done" after it
    nutrition_plan,  \* st.session_state.nutrition_plan
    selected_day,    \* st.session_state.selected_day
    water_count,     \* st.session_state.water_count
    show_share,      \* st.session_state.show_share
    show_calendar,   \* st.session_state.show_calendar
    api_key,         \* whether GROQ_API_KEY is set in the environment
    page,            \* the buttons the last script run left on the page
    run              \* what the last script run did

session == <<nutrition_plan, selected_day, water_count, show_share, show_calendar,
             api_key, page, run>>

vars == <<sample, raw_output, outcome, pc, session>>

\* the page of a run that showed no plan: the form alone
FormOnly ==
    [day_buttons |-> {}, print_button |-> FALSE, action_buttons |-> FALSE,
     new_plan_button |-> FALSE]

\* the first run of a session: main's lines 558-567 set the keys, nothing is
\* submitted, no plan is shown
FirstRun ==
    [trigger |-> "load", had_plan |-> FALSE, generation |-> "none",
     events |-> <<>>, display |-> NotDisplayed]

SessionStart ==
    /\ nutrition_plan = None
    /\ selected_day = None
    /\ water_count = 0
    /\ show_share = FALSE
    /\ show_calendar = FALSE
    /\ page = FormOnly
    /\ run = FirstRun

(***************************************************************************)
(* The extractor on its own: one call on a sampled raw text                *)
(***************************************************************************)

InitExtract ==
    /\ sample \in Samples
    /\ raw_output = RawText(sample)
    /\ outcome = NoOutcome
    /\ pc = "ready"
    /\ api_key = TRUE
    /\ SessionStart

Extract ==
    /\ pc = "ready"
    /\ outcome' = extract_and_parse_json(raw_output)
    /\ pc' = "done"
    /\ UNCHANGED <<sample, raw_output, session>>

NextExtract == Extract

SpecExtract == InitExtract /\ [][NextExtract]_vars

(***************************************************************************)
(* The session: every action is one interaction of the user and the script *)
(* run main() it causes                                                    *)
(***************************************************************************)

\* What the PlanGenerator does when asked: ChatGroq(...) raises, invoke raises,
\* or invoke returns a response with this content
Generation(kind, content) == [kind |-> kind, content |-> content]

Generations ==
    {Generation("init_error", <<>>), Generation("transport_error", <<>>)}
    \cup {Generation("response", r) : r \in Responses}

NoGeneration == Generation("none", <<>>)

\* extract_and_parse_json on each response, evaluated once
extracted == [r \in Responses |-> extract_and_parse_json(r)]

\* a variant of lines 16-31 without the check of lines 18-21
init_without_key_check(key, generation) ==
    IF generation.kind = "init_error"
    THEN [client |-> FALSE,
          events |-> <<"st.error: Failed to initialize Groq client", "st.stop">>]
    ELSE [client |-> TRUE, events |-> <<>>]

\* lines 16-31: the client, or the error shown before st.stop() ends the run
\* (st.stop raises a BaseException, which neither except clause catches)
init_groq_client(key, generation) ==
    IF ~key
    THEN [client |-> FALSE,
          events |-> <<"st.error: GROQ_API_KEY not found", "st.stop">>]
    ELSE IF generation.kind = "init_error"
    THEN [client |-> FALSE,
          events |-> <<"st.error: Failed to initialize Groq client", "st.stop">>]
    ELSE [client |-> TRUE, events |-> <<>>]

\* a variant of line 571 that generates on every submission
guard_on_submission(user_data, plan) == user_data

\* line 571
generation_guard(user_data, plan) == user_data /\ ~Truthy(plan)

\* a variant of lines 580-584 that stores whatever the extractor returned
store_any_parsed(plan, generation, parsed) ==
    [stopped |-> FALSE,
     plan |-> IF parsed.exit = "return" THEN parsed.result ELSE plan,
     events |-> <<"invoke", "extract">>
                \o (IF parsed.exit = "return" THEN <<>>
                    ELSE <<"st.error: Failed to generate valid nutrition plan">>),
     generation |-> generation.kind,
     raw |-> generation.content, outcome |-> parsed]

\* lines 580-584: the parsed value is stored when it is truthy
store(plan, generation, parsed) ==
    [stopped |-> FALSE,
     plan |-> IF Truthy(parsed.result) THEN parsed.result ELSE plan,
     events |-> <<"invoke", "extract">>
                \o (IF Truthy(parsed.result) THEN <<>>
                    ELSE <<"st.error: Failed to generate valid nutrition plan">>),
     generation |-> generation.kind,
     raw |-> generation.content, outcome |-> parsed]

\* lines 574-587 once init_groq_client is back
attempt_with(plan, key, generation, init) ==
    IF ~init.client
    THEN [stopped |-> TRUE, plan |-> plan, events |-> init.events,
          generation |-> IF key THEN generation.kind ELSE "none",
          raw |-> <<>>, outcome |-> NoOutcome]
    ELSE IF generation.kind = "transport_error"
    THEN [stopped |-> FALSE, plan |-> plan,
          events |-> <<"invoke", "st.error: Error generating plan">>,
          generation |-> generation.kind,
          raw |-> <<>>, outcome |-> NoOutcome]
    ELSE store(plan, generation, extracted[generation.content])

\* lines 572-587: one generation attempt
generate(plan, key, generation) ==
    attempt_with(plan, key, generation, init_groq_client(key, generation))

NoAttempt(plan) ==
    [stopped |-> FALSE, plan |-> plan, events |-> <<>>, generation |-> "none",
     raw |-> <<>>, outcome |-> NoOutcome]

\* lines 554-594: the user acts on a widget and Streamlit runs the script.
\* trigger is the widget, clicked_day the day of a day button (<<>> otherwise),
\* generation what the PlanGenerator does if it is asked.
main(trigger, clicked_day, generation) ==
    \E attempt \in {IF generation_guard(trigger = "submit", nutrition_plan)
                    THEN generate(nutrition_plan, api_key, generation)
                    ELSE NoAttempt(nutrition_plan)} :
    \E display \in {IF ~attempt.stopped /\ Truthy(attempt.plan)
                    THEN display_plan(attempt.plan, selected_day, clicked_day)
                    ELSE NotDisplayed} :
    \E new_plan \in {display.status = "complete" /\ trigger = "new_plan"} :
        /\ pc = "session"
        /\ nutrition_plan' = IF new_plan THEN None ELSE attempt.plan
        /\ selected_day' = IF display.day_buttons # {}
                           THEN selected_in_run(attempt.plan, selected_day, clicked_day)
                           ELSE selected_day
        /\ show_share' = (show_share \/ (display.action_buttons /\ trigger = "share"))
        /\ show_calendar' =
               (show_calendar \/ (display.action_buttons /\ trigger = "calendar"))
        /\ page' = IF new_plan THEN FormOnly
                   ELSE [day_buttons |-> display.day_buttons,
                         print_button |-> display.print_button,
                         action_buttons |-> display.action_buttons,
                         new_plan_button |-> display.status = "complete"]
        /\ run' = [trigger |-> trigger,
                   had_plan |-> Truthy(nutrition_plan),
                   generation |-> attempt.generation,
                   events |-> attempt.events
                              \o (IF display.entered THEN <<"display_plan">> ELSE <<>>)
                              \o (IF display.status = "raised"
                                  THEN <<"exception">> ELSE <<>>)
                              \o (IF new_plan THEN <<"st.rerun">> ELSE <<>>),
                   display |-> display]
        /\ raw_output' = attempt.raw
        /\ outcome' = attempt.outcome
        /\ UNCHANGED <<sample, pc, water_count, api_key>>

Init ==
    /\ sample = NoSample
    /\ raw_output = <<>>
    /\ outcome = NoOutcome
    /\ pc = "session"
    /\ api_key \in BOOLEAN
    /\ SessionStart

\* the form is on the page in every run; the generator is asked only under
\* the guard of line 571
Submit ==
    \E g \in IF generation_guard(TRUE, nutrition_plan)
             THEN Generations ELSE {NoGeneration} :
        main("submit", <<>>, g)

ClickDay == \E d \in page.day_buttons : main("day", d, NoGeneration)

ClickNewPlan == page.new_plan_button /\ main("new_plan", <<>>, NoGeneration)

ClickShare == page.action_buttons /\ main("share", <<>>, NoGeneration)

ClickCalendar == page.action_buttons /\ main("calendar", <<>>, NoGeneration)

\* the print button, standing for the widgets that cause a run and nothing else
ClickPrint == page.print_button /\ main("print", <<>>, NoGeneration)

Next ==
    \/ Submit
    \/ ClickDay
    \/ ClickNewPlan
    \/ ClickShare
    \/ ClickCalendar
    \/ ClickPrint

Spec == Init /\ [][Next]_vars

(***************************************************************************)
(* Properties of extract_and_parse_json, under SpecExtract                 *)
(***************************************************************************)

StrictlyValid(text) == json_loads(text).kind = "ok"

Has(text, c) == \E i \in 1..Len(text) : text[i] = c

Called == pc = "done"

ReturnedValueOf(text) ==
    outcome.exit = "return" /\ outcome.result = json_loads(text).val

\* C1: for every raw text that is valid JSON by itself, the extractor returns
\* the value that strict parsing of that same text returns.
C1_ValidTextUnchanged ==
    (Called /\ StrictlyValid(raw_output)) => ReturnedValueOf(raw_output)

\* C2: for every valid JSON object J, leading prose P and trailing prose S,
\* the extractor applied to P, a fence (tagged json or not), J, the closing
\* fence and S returns the object that strict parsing of J alone returns.
C2_FencedObjectRecovered ==
    (Called /\ sample.shape = "fenced") => ReturnedValueOf(sample.J)

\* C3: for every object text that is valid except for one trailing comma right
\* before a closing brace or bracket, the extractor succeeds and returns what
\* parsing the text without that comma returns.
C3_TrailingCommaRepaired ==
    (Called /\ sample.shape = "comma" /\ ~StrictlyValid(raw_output))
        => ReturnedValueOf(sample.J)

\* C4: for every input without an opening brace, the empty text included, the
\* extractor ends in the extraction failure: it reports a parse error, returns
\* no plan and never returns a parsed value.
C4_NoBraceFails ==
    (Called /\ ~Has(raw_output, "{")) =>
        /\ outcome.exit = "except JSONDecodeError"
        /\ outcome.error.shown
        /\ outcome.result = None

\* C5 as stated: whenever the extractor produces no parsed document, the
\* reported failure carries the parser's error detail and the raw input
\* verbatim, and the function returns None.
C5_FailureCarriesRawText ==
    (Called /\ outcome.exit # "return") =>
        /\ outcome.error.shown
        /\ outcome.text_area = [shown |-> TRUE, text |-> raw_output]
        /\ outcome.result = None

\* C5 amended: whenever the extractor produces no parsed document it reports
\* the error detail and returns None; when the parser rejected the candidate
\* (JSONDecodeError) the failure also carries the raw input verbatim, not the
\* repaired candidate; on any other exception no text is shown at all.
C5_FailureReport ==
    (Called /\ outcome.exit # "return") =>
        /\ outcome.result = None
        /\ outcome.error.shown
        /\ outcome.error.kind \in {"JSONDecodeError", "RecursionError"}
        /\ (outcome.error.kind = "JSONDecodeError") =>
               outcome.text_area = [shown |-> TRUE, text |-> raw_output]
        /\ (outcome.error.kind # "JSONDecodeError") =>
               outcome.text_area = NoTextArea

\* C5 witness: the parser rejected a candidate that differs from the raw input
C5_RejectedCandidateDiffers ==
    /\ Called
    /\ outcome.exit = "except JSONDecodeError"
    /\ repaired(raw_output) # raw_output
    /\ outcome.text_area.text = raw_output

Openers(text) == {i \in 1..Len(text) : text[i] = "{"}

Closings(text) == {j \in 1..Len(text) : text[j] = "}"}

\* the text from its first opening brace to its last closing brace (empty
\* when there is no such stretch)
FirstToLast(text) ==
    IF Openers(text) = {} \/ Closings(text) = {} THEN <<>>
    ELSE SubSeq(text,
                CHOOSE i \in Openers(text) : \A k \in Openers(text) : i <= k,
                CHOOSE j \in Closings(text) : \A k \in Closings(text) : k <= j)

\* C11 as stated: for every input the candidate is the text from the first
\* opening brace to the last closing brace of the whole input, and the whole
\* input when it has no opening brace.
C11_FirstToLastBrace ==
    Called =>
        candidate(raw_output) = IF Openers(raw_output) = {} THEN raw_output
                                ELSE FirstToLast(raw_output)

\* C11 amended: when some closing brace follows an opening brace, the candidate
\* is the text from the first opening brace to the last closing brace of the
\* whole input (braces in between are not balanced); otherwise, with no opening
\* brace or with no closing brace after the first one, it is the whole input.
C11_BoundaryExtraction ==
    Called =>
        candidate(raw_output) =
            IF \E i \in Openers(raw_output), j \in Closings(raw_output) : i < j
            THEN FirstToLast(raw_output)
            ELSE raw_output

\* C11 witness: prose around a stretch that is not brace-balanced, cut down to
\* first opening brace .. last closing brace
C11_CutToOuterBraces ==
    /\ Called
    /\ candidate(raw_output) # raw_output
    /\ Cardinality(Closings(candidate(raw_output))) > 1
    /\ Cardinality(Openers(candidate(raw_output)))
           # Cardinality(Closings(candidate(raw_output)))

(***************************************************************************)
(* Properties of the session, under Spec                                   *)
(***************************************************************************)

Count(events, e) == Cardinality({i \in DOMAIN events : events[i] = e})

Calls == Count(run.events, "invoke")

Extractions == Count(run.events, "extract")

CallThenExtraction ==
    /\ Calls = 1
    /\ Extractions = 1
    /\ \E i \in DOMAIN run.events :
           /\ run.events[i] = "invoke"
           /\ i + 1 \in DOMAIN run.events
           /\ run.events[i + 1] = "extract"

FailedAttempt ==
    \/ run.generation = "transport_error"
    \/ (run.generation = "response" /\ outcome.exit # "return")

\* C6: after an attempt that ends in a transport error or an extraction failure
\* the plan stays unset and display_plan is not entered, and whenever
\* display_plan is entered it renders the whole plan and does not stop part-way.
C6_NoPartialPlan ==
    /\ FailedAttempt => (nutrition_plan = None /\ ~run.display.entered)
    /\ run.display.entered => run.display.status = "complete"

\* C7 as stated: every form submission triggers exactly one generator call
\* followed by one extraction, and no call happens without a submission.
C7_EverySubmissionCalls ==
    /\ (run.trigger = "submit") => CallThenExtraction
    /\ (run.trigger # "submit") => (Calls = 0 /\ Extractions = 0)

\* C7 amended: a run makes at most one generator call and one extraction, and
\* only on a form submission; a submission made while no plan is stored and
\* the client initialises makes exactly one call, a submission made while a
\* plan is stored makes none; the extraction follows the call exactly when the
\* call returns a response; a failed attempt is not retried in its run.
C7_OneCallPerAttempt ==
    /\ Calls <= 1
    /\ Extractions <= 1
    /\ (Calls = 1) => (run.trigger = "submit" /\ ~run.had_plan)
    /\ (run.trigger = "submit" /\ run.had_plan) => (Calls = 0 /\ Extractions = 0)
    /\ (run.trigger = "submit" /\ ~run.had_plan /\ api_key
            /\ run.generation # "init_error") => Calls = 1
    /\ (Extractions = 1) => (CallThenExtraction /\ run.generation = "response")
    /\ (Calls = 1 /\ run.generation = "response") => Extractions = 1
    /\ (run.generation = "transport_error") => (Calls = 1 /\ Extractions = 0)

\* C7 witness: a submission whose one call returned a response that the one
\* extraction rejected
C7_FailedAttemptNotRetried ==
    /\ run.trigger = "submit"
    /\ CallThenExtraction
    /\ outcome.exit = "except JSONDecodeError"
    /\ nutrition_plan = None

\* C8: when the credential is absent, a generation attempt reports the
\* configuration error and the run halts there: no call to the generator, no
\* extraction, nothing displayed, and the session plan stays as it was (unset).
C8_MissingCredentialHalts ==
    ~api_key =>
        /\ Calls = 0
        /\ Extractions = 0
        /\ outcome = NoOutcome
        /\ nutrition_plan = None
        /\ (run.trigger = "submit") =>
               /\ run.events = <<"st.error: GROQ_API_KEY not found", "st.stop">>
               /\ ~run.display.entered
               /\ page = FormOnly

\* C8 witness: a submission in a session without the credential
C8_SubmittedWithoutCredential ==
    /\ ~api_key
    /\ run.trigger = "submit"
    /\ ~run.had_plan
    /\ Len(run.events) = 2
    /\ run.events[2] = "st.stop"

\* C10: for every successfully parsed document that lacks keys of the
\* NutritionPlan schema, display_plan does not fail (the lookup of the selected
\* day at line 287 apart, which is the subject of other claims).
C10_MissingKeysDefaulted ==
    (run.display.entered /\ run.display.status = "raised")
        => run.display.line = 287

\* the last run's display_plan got as far as the lookup of line 287
LookedUpDay ==
    /\ run.display.entered
    /\ (run.display.status = "complete" \/ run.display.line >= 287)
    /\ run.trigger # "new_plan"

\* C12: whenever display_plan looks up the selected day's plan, the selected
\* day is a key of the current plan's daily_plans.
C12_SelectedDayIsAKey ==
    LookedUpDay =>
        /\ selected_day.t = "str"
        /\ selected_day.s \in days_of(nutrition_plan)

\* C13: whenever the session plan is set it is a JSON object; a response whose
\* top-level value is an array, a string or a number is never stored as the
\* plan and handed to display_plan.
C13_PlanIsAnObject ==
    /\ (nutrition_plan # None) => nutrition_plan.t = "obj"
    /\ run.display.entered =>
           (run.generation = "response" => outcome.result.t = "obj")

\* the last run made a generation attempt
Attempted == run.trigger = "submit" /\ ~run.had_plan

CallFailed == ~api_key \/ run.generation \in {"init_error", "transport_error"}

NotValidShown ==
    /\ run.events # <<>>
    /\ run.events[Len(run.events)] = "st.error: Failed to generate valid nutrition plan"

\* C14 as stated: an attempt ends without a stored plan only if the generator
\* call failed or the extractor reported a parse error; every response whose
\* repaired text parses has its parsed document returned and stored as the plan.
C14_EveryParsedDocumentStored ==
    Attempted =>
        /\ (nutrition_plan = None) => (CallFailed \/ outcome.error.shown)
        /\ (run.generation = "response" /\ StrictlyValid(repaired(raw_output))) =>
               /\ ReturnedValueOf(repaired(raw_output))
               /\ nutrition_plan = outcome.result

\* C14 amended: every response whose repaired text parses has its parsed
\* document returned by the extractor; the document is stored as the plan
\* exactly when it is truthy.  A falsy document (the empty object, null) is
\* returned without a parse error, is not stored, and the run shows "Failed to
\* generate valid nutrition plan".  An attempt ends without a stored plan only
\* if the call failed, the extractor reported an error, or the document was falsy.
C14_TruthyDocumentStored ==
    Attempted =>
        /\ (run.generation = "response" /\ StrictlyValid(repaired(raw_output))) =>
               /\ ReturnedValueOf(repaired(raw_output))
               /\ ~outcome.error.shown
               /\ Truthy(outcome.result) => nutrition_plan = outcome.result
               /\ ~Truthy(outcome.result) => (nutrition_plan = None /\ NotValidShown)
        /\ (nutrition_plan = None) =>
               \/ CallFailed
               \/ outcome.error.shown
               \/ (outcome.exit = "return" /\ ~Truthy(outcome.result))

\* C14 witness: the response {} parsed, was returned and was not stored
C14_EmptyObjectNotStored ==
    /\ Attempted
    /\ raw_output = <<"{", "}">>
    /\ outcome.exit = "return"
    /\ outcome.result = JObj(EmptyMap)
    /\ nutrition_plan = None
    /\ NotValidShown

=============================================================================
